---- MODULE Spec2Model ----
\* asyncc: stackless coroutines for C on a caller-provided arena.
\* The arena is modelled byte for byte (little-endian uint16 fields), the
\* coroutine macros of asyncc.h as operators on that memory, and the functions
\* of examples/example1.c (bfunc, afunc, main) statement by statement.
EXTENDS Integers, Sequences, FiniteSets, TLC

VARIABLES
    mem,      \* the byte buffer that holds the arena(s): [0..len-1 -> 0..255]
    stack,    \* the C call stack of coroutine invocations in progress
    status,   \* the driver's variable: the status its last invocation returned
    calls,    \* calls[k]: how many invocations the driver has made of instance k
              \* (generic coroutines: 0 counts the driver's, 1 the nested ones)
    nerr,     \* how many times async_err has been called
    lastErr,  \* the arguments of the last async_err call, <<s, locals_size>>
    lastRet,  \* history: the invocation that returned last
    ub,       \* a frame was placed outside the buffer: undefined behaviour
    mainpc,   \* position of main() in example1.c
    ran,      \* history: how often each statement before afunc's wait has run
    inv,      \* history: the invocation that began last (tick flips at each one)
    env       \* the test scenario: the capacity and the arguments the driver uses

vars == <<mem, stack, status, calls, nerr, lastErr, lastRet, ub, mainpc, ran, inv, env>>

-----------------------------------------------------------------------------
\* Program constants.

ASYNC_INIT == 0
ASYNC_CONT == ASYNC_INIT
ASYNC_ERR == 1
ASYNC_DONE == 2

HeaderSize == 4        \* async_init: the first frame starts at byte 4
BfuncFrame == 4        \* sizeof(struct { uint16_t spot; uint16_t i; })
AfuncFrame == 28       \* sizeof(struct { uint16_t spot; uint16_t i; uint8_t s1[3][8]; })
BfuncYieldLine == 49   \* __LINE__ of bfunc's async_yield
AfuncAwaitLine == 71   \* __LINE__ of afunc's await
AfuncI == 42           \* the value afunc stores in its local i
ChildLen == 8          \* the length afunc gives each child arena
MainLen == 64          \* sizeof stack in main

\* Bounds of the model.
MaxRepeat == 3         \* bfunc's repeat argument ranges over 0..MaxRepeat
MaxCalls == 5          \* invocations the driver makes of one instance
BufLen == 12           \* bytes of the buffer the stand-alone drivers own
MaxDepth == 2          \* nesting depth of invocations on one arena
GenCalls == 3          \* invocations made in all on the arena of the generic coroutines

Word == 65536
U16(x) == (x + Word) % Word

\* uint16_t access through a (uint16_t*) cast, little-endian.
Rd16(m, a) == m[a] + 256 * m[a + 1]
Wr16(m, a, v) == [m EXCEPT ![a] = v % 256, ![a + 1] = (v \div 256) % 256]

IDX(m, s) == Rd16(m, s)
MAX(m, s) == Rd16(m, s + 2)
SPOT(m, s) == Rd16(m, s + 4)

-----------------------------------------------------------------------------
\* The macros of asyncc.h.

\* (mutant) the initialisation forgets the label of the first frame
AsyncInitNoLabel(m, s, len) == Wr16(Wr16(m, s, HeaderSize), s + 2, U16(len))

\* async_init(s, len)
AsyncInit(m, s, len) ==
    Wr16(Wr16(Wr16(m, s, HeaderSize), s + 2, U16(len)), s + 4, ASYNC_INIT)

\* a_push(): *s_idx += sizeof(struct locals)
APush(m, s, fs) == Wr16(m, s, U16(IDX(m, s) + fs))

\* a_pop(): *s_idx -= sizeof(struct locals)
APop(m, s, fs) == Wr16(m, s, U16(IDX(m, s) - fs))

\* async_begin's test: (*s_idx + sizeof(struct locals)) > *s_max, in size_t
Overflows(m, s, fs) == IDX(m, s) + fs > MAX(m, s)

\* async_begin's overflow branch after async_err: a_pop(); return ASYNC_ERR
OverflowExit(m, s, fs) == APop(m, s, fs)

\* (mutant) the yield keeps its frame allocated while suspended
AsyncYieldKeepsFrame(m, f, line) == Wr16(m, f.l, line)

\* (mutant) the yield forgets to store its label
AsyncYieldNoLabel(m, f, line) == APop(m, f.s, f.fs)

\* async_yield: l->spot = __LINE__; a_pop(); return ASYNC_CONT
AsyncYield(m, f, line) == APop(Wr16(m, f.l, line), f.s, f.fs)

\* (mutant) the wait forgets to store its label
AwaitNoLabel(m, f, line) == m

\* await_while: l->spot = __LINE__
AwaitMark(m, f, line) == Wr16(m, f.l, line)

\* await_while: if (cond) { a_pop(); return ASYNC_CONT; }
AwaitSuspend(m, f) == APop(m, f.s, f.fs)

\* (mutant) the exit forgets to store the terminal label
AsyncExitNoLabel(m, f) == APop(m, f.s, f.fs)

\* async_exit: l->spot = ASYNC_DONE; a_pop(); return ASYNC_DONE
AsyncExit(m, f) == APop(Wr16(m, f.l, ASYNC_DONE), f.s, f.fs)

\* (mutant) falling off the end resets the label to the top of the body
AsyncEndResetsLabel(m, f) == APop(Wr16(m, f.l, ASYNC_INIT), f.s, f.fs)

\* async_end: case ASYNC_DONE: a_pop(); return ASYNC_DONE
AsyncEnd(m, f) == APop(m, f.s, f.fs)

-----------------------------------------------------------------------------
\* Invocations in progress.

NoStatus == 0 - 1
Slots == 0 .. 2
NoRes == [k \in Slots |-> NoStatus]

Top == stack[Len(stack)]
Below == SubSeq(stack, 1, Len(stack) - 1)
SetTop(f) == [stack EXCEPT ![Len(stack)] = f]

CLine(fs, k) == 100 + 10 * fs + k

\* the default: label of the switch, the top of the body
DispatchToTop(fn, fs, spot) ==
    CASE fn = "bfunc" -> "for_init"
      [] fn = "afunc" -> "top"
      [] OTHER -> "body"

\* (mutant) the switch ignores the label: every invocation enters at the top
DispatchIgnoringLabel(fn, fs, spot) == DispatchToTop(fn, fs, spot)

\* switch (l->spot) { default: ... case __LINE__: ... case ASYNC_DONE: }
\* The value is the statement control is transferred to; fs tells the generic
\* coroutines apart (each has its own two lines).
Dispatch(fn, fs, spot) ==
    CASE spot = ASYNC_DONE -> "end"
      [] fn = "bfunc" /\ spot = BfuncYieldLine -> "for_incr"
      [] fn = "afunc" /\ spot = AfuncAwaitLine -> "await"
      [] fn = "cfunc" /\ spot = CLine(fs, 1) -> "await"
      [] fn = "cfunc" /\ spot = CLine(fs, 2) -> "body"
      [] OTHER -> DispatchToTop(fn, fs, spot)

\* The caller takes the returned status: the driver in its variable status, a
\* coroutine as the operand of the expression it is evaluating.
Deliver(stk, slot, st) ==
    /\ stack' = IF stk = <<>> THEN stk
                ELSE [stk EXCEPT ![Len(stk)] =
                         [@ EXCEPT !.res = [@ EXCEPT ![slot] = st],
                                   !.todo = @ \ {slot}]]
    /\ status' = IF stk = <<>> THEN st ELSE status

\* async_begin(s, ...) of function fn with sizeof(struct locals) = fs, called
\* with argument arg as operand slot of the caller, whose call stack is stk.
Begin(stk, fn, s, fs, arg, slot) ==
    /\ inv' = [tick |-> 1 - inv.tick, fn |-> fn, s |-> s, fs |-> fs, arg |-> arg]
    /\ IF Overflows(mem, s, fs)
       THEN /\ nerr' = nerr + 1
            /\ lastErr' = <<s, fs>>
            /\ mem' = OverflowExit(mem, s, fs)
            /\ Deliver(stk, slot, ASYNC_ERR)
            /\ lastRet' = [fn |-> fn, s |-> s, fs |-> fs, st |-> ASYNC_ERR,
                           entry |-> IDX(mem, s), exit |-> IDX(mem', s),
                           depth |-> Len(stk), via |-> "overflow",
                           spot0 |-> NoStatus, arg |-> arg]
            /\ UNCHANGED ub
       ELSE LET l == s + IDX(mem, s) IN
            IF l + fs > env.len
            THEN /\ ub' = TRUE
                 /\ UNCHANGED <<mem, stack, status, nerr, lastErr, lastRet>>
            ELSE /\ mem' = APush(mem, s, fs)
                 /\ stack' = Append(stk,
                        [fn |-> fn, s |-> s, l |-> l, fs |-> fs, arg |-> arg,
                         slot |-> slot, entry |-> IDX(mem, s),
                         spot0 |-> Rd16(mem', l),
                         pc |-> Dispatch(fn, fs, Rd16(mem', l)),
                         todo |-> IF fn = "afunc" THEN Slots ELSE {},
                         res |-> NoRes])
                 /\ UNCHANGED <<status, nerr, lastErr, lastRet, ub>>

\* return st from the invocation on top of the stack, the arena memory being m
Return(m, st, via) ==
    /\ mem' = m
    /\ Deliver(Below, Top.slot, st)
    /\ lastRet' = [fn |-> Top.fn, s |-> Top.s, fs |-> Top.fs, st |-> st,
                   entry |-> Top.entry, exit |-> IDX(m, Top.s),
                   depth |-> Len(stack) - 1, via |-> via,
                   spot0 |-> Top.spot0, arg |-> Top.arg]

NoRet == [fn |-> "none", s |-> 0, fs |-> 0, st |-> NoStatus, entry |-> 0,
          exit |-> 0, depth |-> 0, via |-> "none", spot0 |-> NoStatus, arg |-> 0]
NoInv == [tick |-> 0, fn |-> "none", s |-> 0, fs |-> 0, arg |-> 0]
NoRan == [seti |-> 0, init |-> 0, mark |-> 0, forinit |-> [k \in Slots |-> 0]]

Running(fn, pc) == ~ub /\ stack # <<>> /\ Top.fn = fn /\ Top.pc = pc

-----------------------------------------------------------------------------
\* bfunc (examples/example1.c)

\* for (_(i) = 0; ...
BfuncForInit ==
    /\ Running("bfunc", "for_init")
    /\ mem' = Wr16(mem, Top.l + 2, 0)
    /\ stack' = SetTop([Top EXCEPT !.pc = "for_test"])
    /\ ran' = [ran EXCEPT !.forinit[Top.slot] = @ + 1]
    /\ UNCHANGED <<status, calls, nerr, lastErr, lastRet, ub, mainpc, inv, env>>

\* ... _(i) < repeat; ...
BfuncForTest ==
    /\ Running("bfunc", "for_test")
    /\ stack' = SetTop([Top EXCEPT !.pc =
                   IF Rd16(mem, Top.l + 2) < Top.arg THEN "for_body" ELSE "end"])
    /\ UNCHANGED <<mem, status, calls, nerr, lastErr, lastRet, ub, mainpc, ran, inv, env>>

\* printf(...); async_yield;
BfuncYield ==
    /\ Running("bfunc", "for_body")
    /\ Return(AsyncYield(mem, Top, BfuncYieldLine), ASYNC_CONT, "yield")
    /\ UNCHANGED <<calls, nerr, lastErr, ub, mainpc, ran, inv, env>>

\* case __LINE__: of the yield, then ... _(i)++)
BfuncForIncr ==
    /\ Running("bfunc", "for_incr")
    /\ mem' = Wr16(mem, Top.l + 2, U16(Rd16(mem, Top.l + 2) + 1))
    /\ stack' = SetTop([Top EXCEPT !.pc = "for_test"])
    /\ UNCHANGED <<status, calls, nerr, lastErr, lastRet, ub, mainpc, ran, inv, env>>

\* async_end(s)
BfuncEnd ==
    /\ Running("bfunc", "end")
    /\ Return(AsyncEnd(mem, Top), ASYNC_DONE, "end")
    /\ UNCHANGED <<calls, nerr, lastErr, ub, mainpc, ran, inv, env>>

Bfunc == BfuncForInit \/ BfuncForTest \/ BfuncYield \/ BfuncForIncr \/ BfuncEnd

-----------------------------------------------------------------------------
\* A driver that owns one arena of BufLen bytes and keeps invoking bfunc on
\* it: two logical instances (operand slots 0 and 1), each with its own repeat
\* argument, in any order.

Garbage == {0, ASYNC_DONE, BfuncYieldLine}
BCaps == {4, 6, 8, BufLen}

\* every uint16_t of the buffer holds the word g
Fill(len, g) == [a \in 0 .. len - 1 |-> IF a % 2 = 0 THEN g % 256 ELSE g \div 256]

InitB ==
    /\ env \in [kind : {"bfunc"}, len : {BufLen}, cap : BCaps, fs : {BfuncFrame},
                rep : [0 .. 1 -> 0 .. MaxRepeat]]
    /\ \E g \in Garbage : mem = AsyncInit(Fill(BufLen, g), 0, env.cap)
    /\ stack = <<>>
    /\ status = ASYNC_INIT
    /\ calls = [k \in Slots |-> 0]
    /\ nerr = 0
    /\ lastErr = <<>>
    /\ lastRet = NoRet
    /\ ub = FALSE
    /\ mainpc = "none"
    /\ ran = NoRan
    /\ inv = NoInv

DriverB ==
    /\ ~ub
    /\ stack = <<>>
    /\ \E k \in 0 .. 1 :
        /\ calls[k] < MaxCalls
        /\ calls' = [calls EXCEPT ![k] = @ + 1]
        /\ Begin(stack, "bfunc", 0, BfuncFrame, env.rep[k], k)
    /\ UNCHANGED <<mainpc, ran, env>>

NextB == DriverB \/ Bfunc

SpecB == InitB /\ [][NextB]_vars

-----------------------------------------------------------------------------
\* afunc and main (examples/example1.c)

\* the C operator & on non-negative ints
RECURSIVE BitAnd(_, _)
BitAnd(a, b) ==
    IF a = 0 \/ b = 0 THEN 0
    ELSE (a % 2) * (b % 2) + 2 * BitAnd(a \div 2, b \div 2)

\* (mutant) the child arenas are laid out four bytes apart
ChildArenaOverlap(f, k) == f.l + 4 + BfuncFrame * k

\* l->s1[k] as an address: s1 follows spot and i in struct locals
ChildArena(f, k) == f.l + 4 + ChildLen * k

\* (mutant) every child is called with repeat 1
ChildRepeatOne(k) == 1

\* bfunc(l->s1[0], 1) & bfunc(l->s1[1], 2) & bfunc(l->s1[2], 3)
ChildRepeat(k) == k + 1

\* (mutant) the join is satisfied as soon as one status is non-zero
JoinAny(res) == res[0] + res[1] + res[2]

\* the value of the condition of afunc's await
Join(res) == BitAnd(BitAnd(res[0], res[1]), res[2])

\* _(i) = 42;
AfuncSetI ==
    /\ Running("afunc", "top")
    /\ mem' = Wr16(mem, Top.l + 2, AfuncI)
    /\ stack' = SetTop([Top EXCEPT !.pc = "init_arenas"])
    /\ ran' = [ran EXCEPT !.seti = @ + 1]
    /\ UNCHANGED <<status, calls, nerr, lastErr, lastRet, ub, mainpc, inv, env>>

\* async_init(l->s1[0], 8); async_init(l->s1[1], 8); async_init(l->s1[2], 8);
AfuncInitArenas ==
    /\ Running("afunc", "init_arenas")
    /\ mem' = AsyncInit(AsyncInit(AsyncInit(mem,
                  ChildArena(Top, 0), ChildLen),
                  ChildArena(Top, 1), ChildLen),
                  ChildArena(Top, 2), ChildLen)
    /\ stack' = SetTop([Top EXCEPT !.pc = "await_mark"])
    /\ ran' = [ran EXCEPT !.init = @ + 1]
    /\ UNCHANGED <<status, calls, nerr, lastErr, lastRet, ub, mainpc, inv, env>>

\* await(...): l->spot = __LINE__;
AfuncAwaitMark ==
    /\ Running("afunc", "await_mark")
    /\ mem' = AwaitMark(mem, Top, AfuncAwaitLine)
    /\ stack' = SetTop([Top EXCEPT !.pc = "await"])
    /\ ran' = [ran EXCEPT !.mark = @ + 1]
    /\ UNCHANGED <<status, calls, nerr, lastErr, lastRet, ub, mainpc, inv, env>>

\* case __LINE__: the operands of the condition are three calls of bfunc, which
\* C evaluates in an order it does not specify
AfuncCallChild ==
    /\ Running("afunc", "await")
    /\ \E k \in Top.todo :
           Begin(stack, "bfunc", ChildArena(Top, k), BfuncFrame, ChildRepeat(k), k)
    /\ UNCHANGED <<calls, mainpc, ran, env>>

\* if (!(b0 & b1 & b2)) { a_pop(); return ASYNC_CONT; }
AfuncAwaitTest ==
    /\ Running("afunc", "await")
    /\ Top.todo = {}
    /\ IF Join(Top.res) = 0
       THEN Return(AwaitSuspend(mem, Top), ASYNC_CONT, "await")
       ELSE /\ stack' = SetTop([Top EXCEPT !.pc = "end"])
            /\ UNCHANGED <<mem, status, lastRet>>
    /\ UNCHANGED <<calls, nerr, lastErr, ub, mainpc, ran, inv, env>>

\* async_end(s)
AfuncEnd ==
    /\ Running("afunc", "end")
    /\ Return(AsyncEnd(mem, Top), ASYNC_DONE, "end")
    /\ UNCHANGED <<calls, nerr, lastErr, ub, mainpc, ran, inv, env>>

Afunc ==
    \/ AfuncSetI \/ AfuncInitArenas \/ AfuncAwaitMark
    \/ AfuncCallChild \/ AfuncAwaitTest \/ AfuncEnd

\* uint8_t stack[64]; its bytes are indeterminate until written
InitEx ==
    /\ env = [kind |-> "main", len |-> MainLen, cap |-> MainLen, fs |-> AfuncFrame,
              rep |-> [k \in 0 .. 1 |-> 0]]
    /\ \E g \in Garbage : mem = Fill(MainLen, g)
    /\ stack = <<>>
    /\ status = ASYNC_INIT
    /\ calls = [k \in Slots |-> 0]
    /\ nerr = 0
    /\ lastErr = <<>>
    /\ lastRet = NoRet
    /\ ub = FALSE
    /\ mainpc = "init"
    /\ ran = NoRan
    /\ inv = NoInv

\* async_init(s, 64); enum async status = ASYNC_INIT;
MainInit ==
    /\ mainpc = "init"
    /\ mem' = AsyncInit(mem, 0, MainLen)
    /\ status' = ASYNC_INIT
    /\ mainpc' = "loop"
    /\ UNCHANGED <<stack, calls, nerr, lastErr, lastRet, ub, ran, inv, env>>

\* while (status != ASYNC_DONE) { status = afunc(s); }
MainCall ==
    /\ mainpc = "loop"
    /\ ~ub
    /\ stack = <<>>
    /\ status # ASYNC_DONE
    /\ calls[0] < MaxCalls
    /\ calls' = [calls EXCEPT ![0] = @ + 1]
    /\ Begin(stack, "afunc", 0, AfuncFrame, 0, 0)
    /\ UNCHANGED <<mainpc, ran, env>>

\* printf("Done!\n");
MainDone ==
    /\ mainpc = "loop"
    /\ stack = <<>>
    /\ status = ASYNC_DONE
    /\ mainpc' = "done"
    /\ UNCHANGED <<mem, stack, status, calls, nerr, lastErr, lastRet, ub, ran, inv, env>>

NextEx == MainInit \/ MainCall \/ MainDone \/ Afunc \/ Bfunc

SpecEx == InitEx /\ [][NextEx]_vars

-----------------------------------------------------------------------------
\* A generic coroutine written with the macros, one per frame size fs:
\*     enum async cfunc(uint8_t *s, int c) {
\*         async_begin(s, <fs - 2 bytes of locals>);
\*         ... await_while(c); ... async_yield; ... async_exit; ...
\*         ... other coroutines called on the same arena s ...
\*         async_end(s);
\*     }
\* Its statements between the macros are arbitrary, so after any statement any
\* macro may come next; its wait is at line CLine(fs, 1), its yield at
\* CLine(fs, 2).

CFrames == {2, 4, 6}
Caps == {4, 6, 8, BufLen}
GarbageC == {0, ASYNC_DONE, CLine(4, 1)}

InBody(pcs) == ~ub /\ stack # <<>> /\ Top.fn = "cfunc" /\ Top.pc \in pcs

\* await_while(c): l->spot = __LINE__;
CAwaitMark ==
    /\ InBody({"body"})
    /\ mem' = AwaitMark(mem, Top, CLine(Top.fs, 1))
    /\ stack' = SetTop([Top EXCEPT !.pc = "await"])
    /\ UNCHANGED <<status, calls, nerr, lastErr, lastRet, ub, mainpc, ran, inv, env>>

\* case __LINE__: if (c) { a_pop(); return ASYNC_CONT; }
CAwaitTest ==
    /\ InBody({"await"})
    /\ IF Top.arg # 0
       THEN Return(AwaitSuspend(mem, Top), ASYNC_CONT, "await")
       ELSE /\ stack' = SetTop([Top EXCEPT !.pc = "body"])
            /\ UNCHANGED <<mem, status, lastRet>>
    /\ UNCHANGED <<calls, nerr, lastErr, ub, mainpc, ran, inv, env>>

\* async_yield
CYield ==
    /\ InBody({"body"})
    /\ Return(AsyncYield(mem, Top, CLine(Top.fs, 2)), ASYNC_CONT, "yield")
    /\ UNCHANGED <<calls, nerr, lastErr, ub, mainpc, ran, inv, env>>

\* async_exit
CExit ==
    /\ InBody({"body"})
    /\ Return(AsyncExit(mem, Top), ASYNC_DONE, "exit")
    /\ UNCHANGED <<calls, nerr, lastErr, ub, mainpc, ran, inv, env>>

\* async_end(s), reached by falling off the body or through case ASYNC_DONE
CEnd ==
    /\ InBody({"body", "end"})
    /\ Return(AsyncEnd(mem, Top), ASYNC_DONE, "end")
    /\ UNCHANGED <<calls, nerr, lastErr, ub, mainpc, ran, inv, env>>

\* a call of another coroutine on the same arena s, from the body or from the
\* condition of the wait
CCall ==
    /\ InBody({"body", "await"})
    /\ Len(stack) < MaxDepth
    /\ calls[0] + calls[1] < GenCalls
    /\ calls' = [calls EXCEPT ![1] = @ + 1]
    /\ \E fs \in CFrames, c \in 0 .. 1 : Begin(stack, "cfunc", Top.s, fs, c, 0)
    /\ UNCHANGED <<mainpc, ran, env>>

Cfunc == CAwaitMark \/ CAwaitTest \/ CYield \/ CExit \/ CEnd \/ CCall

Init ==
    /\ env \in [kind : {"cfunc"}, len : {BufLen}, cap : Caps, fs : {0},
                rep : {[k \in 0 .. 1 |-> 0]}]
    /\ \E g \in GarbageC : mem = AsyncInit(Fill(BufLen, g), 0, env.cap)
    /\ stack = <<>>
    /\ status = ASYNC_INIT
    /\ calls = [k \in Slots |-> 0]
    /\ nerr = 0
    /\ lastErr = <<>>
    /\ lastRet = NoRet
    /\ ub = FALSE
    /\ mainpc = "none"
    /\ ran = NoRan
    /\ inv = NoInv

\* the driver invokes a coroutine on its arena
Driver ==
    /\ ~ub
    /\ stack = <<>>
    /\ calls[0] + calls[1] < GenCalls
    /\ calls' = [calls EXCEPT ![0] = @ + 1]
    /\ \E fs \in CFrames, c \in 0 .. 1 : Begin(stack, "cfunc", 0, fs, c, 0)
    /\ UNCHANGED <<mainpc, ran, env>>

Next == Driver \/ Cfunc

Spec == Init /\ [][Next]_vars

-----------------------------------------------------------------------------
\* A driver that keeps invoking one instance of a generic coroutine, with frame
\* size env.fs, on an arena that has room for its frame; c is the value its
\* wait condition has during the invocation.

InitC ==
    /\ env \in [kind : {"single"}, len : {BufLen}, cap : {6, 8, BufLen},
                fs : CFrames, rep : {[k \in 0 .. 1 |-> 0]}]
    /\ env.cap >= HeaderSize + env.fs
    /\ \E g \in GarbageC : mem = AsyncInit(Fill(BufLen, g), 0, env.cap)
    /\ stack = <<>>
    /\ status = ASYNC_INIT
    /\ calls = [k \in Slots |-> 0]
    /\ nerr = 0
    /\ lastErr = <<>>
    /\ lastRet = NoRet
    /\ ub = FALSE
    /\ mainpc = "none"
    /\ ran = NoRan
    /\ inv = NoInv

DriverC ==
    /\ ~ub
    /\ stack = <<>>
    /\ calls[0] < MaxCalls
    /\ calls' = [calls EXCEPT ![0] = @ + 1]
    /\ \E c \in 0 .. 1 : Begin(stack, "cfunc", 0, env.fs, c, 0)
    /\ UNCHANGED <<mainpc, ran, env>>

NextC == DriverC \/ CAwaitMark \/ CAwaitTest \/ CYield \/ CExit \/ CEnd

SpecC == InitC /\ [][NextC]_vars

-----------------------------------------------------------------------------
\* Properties.

Frames == {stack[i] : i \in 1 .. Len(stack)}

\* C1 (SpecEx): an invocation that follows a suspension continues at the label
\* stored in the frame. A frame of afunc entered with the label of its wait is
\* at the wait, evaluating the same condition (every operand is called again
\* before control can go on to the end), and a frame of bfunc entered with the
\* label of its yield is past the yield; the statements before the suspension
\* point (i = 42, the three async_init, the store of the label, the loop's
\* initialisation in each child) run once in the whole run.
C1_ResumeAtLabel ==
    /\ ran.seti <= 1 /\ ran.init <= 1 /\ ran.mark <= 1
    /\ \A k \in Slots : ran.forinit[k] <= 1
    /\ \A f \in Frames :
        /\ (f.fn = "afunc" /\ f.spot0 = AfuncAwaitLine) =>
              /\ f.pc \in {"await", "end"}
              /\ f.pc = "end" => (f.todo = {} /\ \A k \in Slots : f.res[k] # NoStatus)
        /\ (f.fn = "bfunc" /\ f.spot0 = BfuncYieldLine) =>
              f.pc \in {"for_incr", "for_test", "for_body", "end"}

\* afunc, resumed at its wait on a later invocation, is calling its children again
C1_Witness ==
    /\ calls[0] >= 2
    /\ Len(stack) = 2
    /\ stack[1].fn = "afunc" /\ stack[1].spot0 = AfuncAwaitLine
    /\ stack[1].pc = "await" /\ stack[1].todo # Slots
    /\ stack[2].fn = "bfunc" /\ stack[2].spot0 = BfuncYieldLine
    /\ ran.seti = 1 /\ ran.init = 1

\* C2 (SpecB): bfunc with repeat = n, the only coroutine invoked on a freshly
\* initialised arena with room for its frame, returns CONTINUE on invocations
\* 1..n, its counter i being k - 1 after the k-th, and DONE on invocation
\* n + 1; the loop's initialisation runs in the first invocation only.
C2_BfuncYieldsNTimes ==
    (/\ env.kind = "bfunc"
     /\ env.cap >= HeaderSize + BfuncFrame
     /\ calls[1] = 0
     /\ calls[0] >= 1
     /\ calls[0] <= env.rep[0] + 1) =>
        /\ ran.forinit[0] <= 1
        /\ nerr = 0
        /\ stack = <<>> =>
            IF calls[0] <= env.rep[0]
            THEN status = ASYNC_CONT /\ Rd16(mem, HeaderSize + 2) = calls[0] - 1
            ELSE status = ASYNC_DONE

\* bfunc with repeat >= 2 has returned DONE on invocation repeat + 1
C2_Witness ==
    /\ env.kind = "bfunc"
    /\ env.cap >= HeaderSize + BfuncFrame
    /\ calls[1] = 0
    /\ env.rep[0] >= 2
    /\ calls[0] = env.rep[0] + 1
    /\ stack = <<>>
    /\ status = ASYNC_DONE
    /\ Rd16(mem, HeaderSize + 2) = env.rep[0]

\* C3 (Spec): an invocation that returns CONTINUE or DONE leaves writeOffset at
\* the value it had when the invocation was entered.
C3_OffsetRestored ==
    lastRet.st \in {ASYNC_CONT, ASYNC_DONE} => lastRet.exit = lastRet.entry

\* C4 (Spec): an invocation made when writeOffset + frameSize > capacity
\* returns ERROR, calls async_err once with the arena and the frame size, enters
\* no frame (no statement of the body runs) and changes no byte of the region
\* the frame would have occupied.
C4_OverflowReported ==
    [][(inv'.tick # inv.tick /\ Overflows(mem, inv'.s, inv'.fs)) =>
          /\ lastRet'.st = ASYNC_ERR /\ lastRet'.via = "overflow"
          /\ stack = <<>> => status' = ASYNC_ERR
          /\ nerr' = nerr + 1
          /\ lastErr' = <<inv'.s, inv'.fs>>
          /\ Len(stack') = Len(stack)
          /\ \A a \in DOMAIN mem :
                (/\ a >= inv'.s + IDX(mem, inv'.s)
                 /\ a < inv'.s + IDX(mem, inv'.s) + inv'.fs) => mem'[a] = mem[a]
      ]_vars

\* C5 (SpecB): an invocation that returns ERROR leaves writeOffset as it was.
C5_ErrorKeepsOffset ==
    lastRet.st = ASYNC_ERR => lastRet.exit = lastRet.entry

\* C6 (SpecB): when the driver's last invocation returned ERROR and the driver
\* repeats that invocation, it returns ERROR again, calls async_err once more
\* with the same size and leaves the arena as it was.
C6_OverflowIdempotent ==
    [][(/\ inv'.tick # inv.tick
        /\ stack = <<>>
        /\ lastRet.st = ASYNC_ERR /\ lastRet.depth = 0
        /\ inv'.fn = lastRet.fn /\ inv'.s = lastRet.s
        /\ inv'.fs = lastRet.fs /\ inv'.arg = lastRet.arg) =>
          /\ status' = ASYNC_ERR
          /\ nerr' = nerr + 1
          /\ lastErr' = lastErr
          /\ mem' = mem
      ]_vars

\* C7 (Spec): writeOffset <= capacity in every reachable state.
C7_OffsetWithinCapacity == IDX(mem, 0) <= MAX(mem, 0)

\* C8 (Spec): every active frame lies between the header and the capacity the
\* arena was initialised with, and no two active frames of the arena overlap.
C8_FramePlacement ==
    /\ \A f \in Frames : f.l >= f.s + HeaderSize /\ f.l + f.fs <= f.s + env.cap
    /\ \A i, j \in 1 .. Len(stack) :
          (i < j /\ stack[i].s = stack[j].s) =>
              \/ stack[i].l + stack[i].fs <= stack[j].l
              \/ stack[j].l + stack[j].fs <= stack[i].l

\* C9 (Spec): on an arena of capacity header + one frame, an invocation with
\* writeOffset at the header is not rejected, and at most one frame of that
\* size is active (an invocation made while one is active is rejected).
C9_ExactFit ==
    \A fs \in CFrames :
        env.cap = HeaderSize + fs =>
            /\ ~(/\ lastRet.via = "overflow" /\ lastRet.fs = fs
                 /\ lastRet.entry = HeaderSize)
            /\ Cardinality({i \in 1 .. Len(stack) : stack[i].fs = fs}) <= 1

\* C10 (SpecC): for one instance on an arena with room for its frame, an
\* invocation returns DONE exactly when control reached async_end or
\* async_exit; an invocation that finds the instance suspended at its wait
\* while the condition holds is at the wait and returns CONTINUE from it; and
\* no invocation returns ERROR.
C10_DoneIffTerminal ==
    /\ lastRet.st = ASYNC_DONE <=> lastRet.via \in {"end", "exit"}
    /\ (lastRet.spot0 = CLine(lastRet.fs, 1) /\ lastRet.arg # 0) =>
          (lastRet.st = ASYNC_CONT /\ lastRet.via = "await")
    /\ \A f \in Frames :
          (f.spot0 = CLine(f.fs, 1) /\ f.arg # 0) => f.pc = "await"
    /\ nerr = 0 /\ status # ASYNC_ERR

\* the instance waited over several invocations and then, the condition gone,
\* resumed at the wait and ran to the end
C10_Witness ==
    /\ calls[0] >= 3
    /\ stack = <<>>
    /\ lastRet.spot0 = CLine(lastRet.fs, 1)
    /\ lastRet.arg = 0
    /\ lastRet.via = "end"
    /\ status = ASYNC_DONE

\* C11 (SpecC): after an invocation that returned DONE, the label of its frame
\* (the word at the offset the invocation was entered with) is ASYNC_DONE,
\* whether the invocation ended in async_exit or fell into async_end.
C11_DoneLabelTerminal ==
    (stack = <<>> /\ lastRet.st = ASYNC_DONE) =>
        Rd16(mem, lastRet.s + lastRet.entry) = ASYNC_DONE

\* C17 (SpecC): async_exit stores ASYNC_DONE in the label, takes the write
\* offset back to its value at entry and returns DONE straight from the body;
\* from then on every invocation of the instance is entered at case ASYNC_DONE
\* (the only statement it runs is the a_pop of async_end), returns DONE, leaves
\* every byte of the arena other than the write offset as it was, and leaves
\* the write offset at its value before the invocation.
C17_ExitIsFinal ==
    [][ /\ (stack # <<>> /\ stack' = <<>> /\ lastRet'.via = "exit") =>
              /\ Top.pc = "body"
              /\ SPOT(mem', 0) = ASYNC_DONE
              /\ IDX(mem', 0) = Top.entry
              /\ status' = ASYNC_DONE
        /\ (SPOT(mem, 0) = ASYNC_DONE) =>
              /\ \A a \in 2 .. BufLen - 1 : mem'[a] = mem[a]
              /\ stack' # <<>> =>
                    /\ Top'.spot0 = ASYNC_DONE
                    /\ Top'.pc = "end"
              /\ stack' = <<>> =>
                    /\ status' = ASYNC_DONE
                    /\ lastRet'.st = ASYNC_DONE
                    /\ lastRet'.via \in {"exit", "end"}
                    /\ IDX(mem', 0) = HeaderSize
      ]_vars

\* an instance that left through async_exit has been invoked twice more, and
\* the last invocation entered at case ASYNC_DONE and returned DONE
C17_Witness ==
    /\ calls[0] >= 3
    /\ stack = <<>>
    /\ lastRet.spot0 = ASYNC_DONE
    /\ lastRet.via = "end"
    /\ status = ASYNC_DONE
    /\ SPOT(mem, 0) = ASYNC_DONE
    /\ IDX(mem, 0) = HeaderSize

-----------------------------------------------------------------------------
\* main and afunc of the example with child arenas of other lengths: the 8 of
\* async_init(l->s1[k], 8) is env.clen[k]. A child whose arena has no room for
\* the frame of bfunc returns ERROR, so the join of afunc meets every mixture
\* of the three status values.

ChildLens == {6, ChildLen}

InitJ ==
    /\ env \in [kind : {"join"}, len : {MainLen}, cap : {MainLen}, fs : {AfuncFrame},
                rep : {[k \in 0 .. 1 |-> 0]}, clen : [Slots -> ChildLens]]
    /\ \E g \in Garbage : mem = Fill(MainLen, g)
    /\ stack = <<>>
    /\ status = ASYNC_INIT
    /\ calls = [k \in Slots |-> 0]
    /\ nerr = 0
    /\ lastErr = <<>>
    /\ lastRet = NoRet
    /\ ub = FALSE
    /\ mainpc = "init"
    /\ ran = NoRan
    /\ inv = NoInv

\* async_init(l->s1[0], n0); async_init(l->s1[1], n1); async_init(l->s1[2], n2);
AfuncInitArenasJ ==
    /\ Running("afunc", "init_arenas")
    /\ mem' = AsyncInit(AsyncInit(AsyncInit(mem,
                  ChildArena(Top, 0), env.clen[0]),
                  ChildArena(Top, 1), env.clen[1]),
                  ChildArena(Top, 2), env.clen[2])
    /\ stack' = SetTop([Top EXCEPT !.pc = "await_mark"])
    /\ ran' = [ran EXCEPT !.init = @ + 1]
    /\ UNCHANGED <<status, calls, nerr, lastErr, lastRet, ub, mainpc, inv, env>>

NextJ ==
    \/ MainInit \/ MainCall \/ MainDone
    \/ AfuncSetI \/ AfuncInitArenasJ \/ AfuncAwaitMark
    \/ AfuncCallChild \/ AfuncAwaitTest \/ AfuncEnd
    \/ Bfunc

SpecJ == InitJ /\ [][NextJ]_vars

AtJoin == stack # <<>> /\ Top.fn = "afunc" /\ Top.pc = "await" /\ Top.todo = {}

\* C12 (SpecJ): afunc goes on past its await only from an evaluation in which
\* every one of the three children returned ERROR or DONE on this invocation;
\* an evaluation in which some child returned CONTINUE makes afunc return
\* CONTINUE to its caller.
C12_JoinWaitsForAll ==
    [][ /\ (AtJoin /\ \E k \in Slots : Top.res[k] = ASYNC_CONT) =>
              /\ stack' = <<>>
              /\ status' = ASYNC_CONT
              /\ lastRet'.fn = "afunc" /\ lastRet'.st = ASYNC_CONT
        /\ (/\ stack # <<>> /\ Top.fn = "afunc" /\ Top.pc = "await"
            /\ stack' # <<>> /\ Top'.fn = "afunc" /\ Top'.pc = "end") =>
              /\ Top.todo = {}
              /\ \A k \in Slots : Top.res[k] \in {ASYNC_ERR, ASYNC_DONE}
      ]_vars

\* afunc is past its await on an invocation on which all three children
\* returned ERROR
C12_Witness ==
    /\ stack # <<>> /\ Top.fn = "afunc" /\ Top.pc = "end"
    /\ \A k \in Slots : Top.res[k] = ASYNC_ERR

\* C13 (SpecJ): an evaluation of the join in which every child returned ERROR
\* or DONE, in whatever mixture, lets afunc go on past its await.
C13_JoinAcceptsMixture ==
    [][ (AtJoin /\ \A k \in Slots : Top.res[k] \in {ASYNC_ERR, ASYNC_DONE}) =>
            (stack' # <<>> /\ Top'.fn = "afunc" /\ Top'.pc = "end")
      ]_vars

-----------------------------------------------------------------------------
\* The program is sequential: a step that can be taken is taken.
SpecExFair == SpecEx /\ WF_vars(NextEx)

\* C14 (SpecExFair): the run of main. The n-th invocation of afunc returns
\* CONTINUE for n = 1, 2, 3 and DONE for n = 4; within it the child with
\* repeat k + 1 returns CONTINUE up to the invocation k + 1 and DONE from the
\* invocation k + 2 on; the loop of main ends (main reaches "Done!", after the
\* fourth invocation and no fifth is made); async_err is never called; the
\* write offset of main's arena is 4 whenever afunc is not running.
C14_ExampleRun ==
    /\ [](/\ nerr = 0
          /\ calls[0] <= 4
          /\ (mainpc # "init" /\ stack = <<>>) =>
                /\ IDX(mem, 0) = HeaderSize
                /\ calls[0] >= 1 =>
                      status = (IF calls[0] <= 3 THEN ASYNC_CONT ELSE ASYNC_DONE)
          /\ \A f \in Frames : \A k \in Slots :
                (f.fn = "afunc" /\ f.res[k] # NoStatus) =>
                    f.res[k] = (IF calls[0] >= k + 2 THEN ASYNC_DONE ELSE ASYNC_CONT)
          /\ mainpc = "done" => (calls[0] = 4 /\ status = ASYNC_DONE /\ stack = <<>>))
    /\ <>(mainpc = "done")

\* main has printed "Done!" after four invocations of afunc
C14_Witness ==
    /\ mainpc = "done"
    /\ calls[0] = 4
    /\ status = ASYNC_DONE
    /\ lastRet.fn = "afunc" /\ lastRet.via = "end"
    /\ IDX(mem, 0) = HeaderSize

-----------------------------------------------------------------------------
\* A driver that owns a buffer of BufLen bytes, initialises it as an arena
\* with room for the frame of bfunc, invokes bfunc on it, and may initialise
\* it again between invocations. mainpc tells how far the driver is since the
\* last async_init: "init" (never initialised), "fresh" (initialised, not yet
\* used), "first" (first invocation begun), "later".

InitI ==
    /\ env \in [kind : {"reinit"}, len : {BufLen}, cap : {8, BufLen},
                fs : {BfuncFrame}, rep : {[k \in 0 .. 1 |-> r] : r \in 0 .. MaxRepeat}]
    /\ \E g \in Garbage : mem = Fill(BufLen, g)
    /\ stack = <<>>
    /\ status = ASYNC_INIT
    /\ calls = [k \in Slots |-> 0]
    /\ nerr = 0
    /\ lastErr = <<>>
    /\ lastRet = NoRet
    /\ ub = FALSE
    /\ mainpc = "init"
    /\ ran = NoRan
    /\ inv = NoInv

\* async_init(s, cap)
DriverInit ==
    /\ stack = <<>>
    /\ mem' = AsyncInit(mem, 0, env.cap)
    /\ mainpc' = "fresh"
    /\ UNCHANGED <<stack, status, calls, nerr, lastErr, lastRet, ub, ran, inv, env>>

\* status = bfunc(s, repeat)
DriverI ==
    /\ ~ub
    /\ stack = <<>>
    /\ mainpc # "init"
    /\ calls[0] < MaxCalls
    /\ calls' = [calls EXCEPT ![0] = @ + 1]
    /\ mainpc' = IF mainpc = "fresh" THEN "first" ELSE "later"
    /\ Begin(stack, "bfunc", 0, BfuncFrame, env.rep[0], 0)
    /\ UNCHANGED <<ran, env>>

NextI == DriverInit \/ DriverI \/ Bfunc

SpecI == InitI /\ [][NextI]_vars

\* C15 (SpecI): right after async_init(s, len) the write offset is 4, the
\* capacity is len and the label at byte 4 is 0, whatever the buffer held
\* before (indeterminate bytes, or the frame a coroutine left there); the
\* first invocation after it has its frame at offset 4, reads the label 0 and
\* starts at the top of the body: it never is at the statement after the
\* yield, and once past the loop's initialisation its counter is the 0 it
\* stored there.
C15_InitThenTop ==
    /\ mainpc = "fresh" =>
          /\ IDX(mem, 0) = HeaderSize
          /\ MAX(mem, 0) = env.cap
          /\ SPOT(mem, 0) = ASYNC_INIT
    /\ (mainpc = "first" /\ stack # <<>>) =>
          /\ Top.l = HeaderSize
          /\ Top.entry = HeaderSize
          /\ Top.spot0 = ASYNC_INIT
          /\ Top.pc \in {"for_init", "for_test", "for_body", "end"}
          /\ Top.pc # "for_init" => Rd16(mem, Top.l + 2) = 0
          /\ Top.pc = "end" => Top.arg = 0
    /\ (mainpc = "first" /\ stack = <<>>) =>
          /\ lastRet.spot0 = ASYNC_INIT
          /\ lastRet.entry = HeaderSize
          /\ lastRet.st = (IF lastRet.arg = 0 THEN ASYNC_DONE ELSE ASYNC_CONT)

\* the arena was initialised again after bfunc had suspended in it, and the
\* invocation that follows is running the loop from its start
C15_Witness ==
    /\ mainpc = "first"
    /\ calls[0] >= 2
    /\ env.rep[0] >= 2
    /\ stack # <<>> /\ Top.pc = "for_body"
    /\ Top.spot0 = ASYNC_INIT
    /\ Rd16(mem, Top.l + 2) = 0

-----------------------------------------------------------------------------
\* C16 (SpecB): two instances of bfunc invoked in any interleaving on one
\* arena that has room for a frame. Every invocation of either instance finds
\* the write offset at 4 and has its frame at offset 4, the bytes in which the
\* other instance left its label and counter when it suspended: an invocation
\* that follows a yield, of whichever instance, reads the label of that yield.
C16_SharedFrame ==
    env.cap >= HeaderSize + BfuncFrame =>
        /\ nerr = 0
        /\ stack = <<>> => IDX(mem, 0) = HeaderSize
        /\ \A f \in Frames :
              /\ f.entry = HeaderSize
              /\ f.l = HeaderSize
              /\ lastRet.via = "yield" => f.spot0 = BfuncYieldLine

\* instance 0 ran its loop from the start and suspended at the yield with
\* counter 0 on its first invocation; on its second invocation it is resumed
\* after the yield and finds a counter that is not 0 (instance 1 ran in
\* between)
C16_Witness ==
    /\ env.cap >= HeaderSize + BfuncFrame
    /\ env.rep[0] >= 1
    /\ calls[0] = 2
    /\ ran.forinit[0] = 1
    /\ stack # <<>> /\ Top.slot = 0 /\ Top.pc = "for_incr"
    /\ Rd16(mem, Top.l + 2) # 0

-----------------------------------------------------------------------------
\* C18 (SpecB): instance 0 has been invoked until it returned DONE (repeat + 1
\* invocations, all before instance 1 was first invoked) on an arena with
\* room, and the arena was not initialised again; the first invocation of
\* instance 1 then starts at the top of the body: it is at the loop's
\* initialisation or has run it.
C18_SiblingStartsAtTop ==
    (/\ env.cap >= HeaderSize + BfuncFrame
     /\ calls[0] = env.rep[0] + 1
     /\ calls[1] = 1
     /\ stack # <<>> /\ Top.slot = 1) =>
        (Top.pc = "for_init" \/ ran.forinit[1] = 1)

-----------------------------------------------------------------------------
\* C19 (SpecEx): afunc leaves the evaluation of its join (to return CONTINUE
\* or to go on to its end) only after all three children were invoked on this
\* invocation, the finished ones included. A child invoked again after the
\* invocation on which it first returned DONE (the (k + 2)-th for child k) is
\* entered after its yield, never reaches the yield again, and returns DONE.
\* So the join is non-zero, and afunc goes on to its end, on the fourth
\* invocation, the one on which the slowest child (repeat 3) first returns
\* DONE, and on no earlier one.
C19_FinishedChildrenAnswerDone ==
    /\ [](/\ \A f \in Frames :
                /\ (f.fn = "bfunc" /\ calls[0] > f.slot + 2) =>
                      /\ f.spot0 = BfuncYieldLine
                      /\ f.pc \in {"for_incr", "for_test", "end"}
                /\ f.fn = "afunc" =>
                      /\ \A k \in Slots :
                            (calls[0] > k + 2 /\ f.res[k] # NoStatus) =>
                                f.res[k] = ASYNC_DONE
                      /\ (calls[0] < 4 /\ f.res[2] # NoStatus) =>
                            f.res[2] = ASYNC_CONT
                      /\ f.pc = "end" =>
                            /\ calls[0] = 4
                            /\ \A k \in Slots : f.res[k] = ASYNC_DONE)
    /\ [][ (/\ stack # <<>> /\ Top.fn = "afunc" /\ Top.pc = "await"
            /\ (stack' = <<>> \/ (Len(stack') = 1 /\ Top'.pc = "end"))) =>
               \A k \in Slots : Top.res[k] # NoStatus
         ]_vars

\* on the fourth invocation of afunc the child with repeat 1, which first
\* returned DONE on the second, has been invoked again and is about to return
\* DONE from async_end
C19_Witness ==
    /\ calls[0] = 4
    /\ Len(stack) = 2
    /\ Top.fn = "bfunc" /\ Top.slot = 0
    /\ Top.spot0 = BfuncYieldLine
    /\ Top.pc = "end"

-----------------------------------------------------------------------------
\* the four words of the arena at s: write offset, capacity, label and counter
\* of the frame of bfunc
ArenaWords(m, s) == <<IDX(m, s), MAX(m, s), SPOT(m, s), Rd16(m, s + 6)>>

\* C20 (SpecEx): the three child arenas are disjoint 8-byte parts of afunc's
\* frame. Whatever the order in which the three calls are evaluated, once all
\* three have returned on the n-th invocation of afunc the statuses are the
\* same (child k: DONE if n >= k + 2, else CONTINUE), hence the join, and the
\* contents of each child arena are the same (write offset 4, capacity 8, label
\* of the yield, counter n - 1). A step of a child, its entry and its return
\* included, changes no byte outside its own arena: not another child's
\* arena, not afunc's label or counter, not the header of main's arena.
C20_ChildrenIndependent ==
    /\ [](\A f \in Frames : f.fn = "afunc" =>
            /\ \A k \in Slots :
                  /\ ChildArena(f, k) >= f.l + 4
                  /\ ChildArena(f, k) + ChildLen <= f.l + f.fs
                  /\ \A j \in Slots :
                        j < k => ChildArena(f, j) + ChildLen <= ChildArena(f, k)
            /\ (f.pc = "await" /\ f.todo = {}) =>
                  \A k \in Slots :
                      /\ f.res[k] = (IF calls[0] >= k + 2 THEN ASYNC_DONE
                                     ELSE ASYNC_CONT)
                      /\ ArenaWords(mem, ChildArena(f, k)) =
                            <<HeaderSize, ChildLen, BfuncYieldLine, calls[0] - 1>>)
    /\ [][ \A c \in {stack[i] : i \in 2 .. Len(stack)} \cup
                    {stack'[i] : i \in 2 .. Len(stack')} :
               c.fn = "bfunc" =>
                   \A a \in 0 .. MainLen - 1 :
                       (a < c.s \/ a >= c.s + ChildLen) => mem'[a] = mem[a]
         ]_vars

\* on the third invocation of afunc all three children have returned: the
\* first two DONE, the third CONTINUE
C20_Witness ==
    /\ AtJoin
    /\ calls[0] = 3
    /\ Top.res = [k \in Slots |-> IF k < 2 THEN ASYNC_DONE ELSE ASYNC_CONT]
    /\ ArenaWords(mem, ChildArena(Top, 2)) = <<HeaderSize, ChildLen, BfuncYieldLine, 2>>

====
